---- MODULE Spec2Model ----
(***************************************************************************)
(* The computational graph (CGraph) and its nodes (Function) of            *)
(* algopy/tracer/tracer.py: tracing, forward replay (push_forward) and     *)
(* reverse replay (pullback).                                              *)
(*                                                                         *)
(* Function objects live in `heap`; an object reference is its index in    *)
(* `heap`.  CGraph objects live in `graphs`; Function.cgraph is an index   *)
(* into `graphs`, 0 standing for None.  A replay call runs in steps, one   *)
(* per statement group of the method, and `pc` is the position inside it.  *)
(*                                                                         *)
(* The derivative oracle of algopy/nthderiv/nthderiv.py (the decorator     *)
(* basecase and the functions it decorates) is modelled at the end of the  *)
(* program part; `oracle` holds its last call and what that call did.      *)
(*                                                                         *)
(* The numeric algebra (algopy.utp.utpm) is not part of tracer.py.  Values *)
(* are tagged integers: a Python float, a UTPM structure (one coefficient) *)
(* or a tuple of UTPM structures.  The forward and pullback evaluators of  *)
(* that algebra are modelled from the specification's description of the   *)
(* adapter contract.                                                       *)
(***************************************************************************)
EXTENDS Integers, Sequences, FiniteSets, TLC

VARIABLES heap, graphs, cgraph, pc, call, last, oracle

vars == <<heap, graphs, cgraph, pc, call, last, oracle>>

(***************************************************************************)
(* Bounds of the model.                                                    *)
(***************************************************************************)
MaxNodes == 3
MaxGraphs == 2
MaxList == 1
MaxOrder == 2
MaxX == 2

(***************************************************************************)
(* Values: tagged integers.  "float" is a Python scalar, "UTPM" a          *)
(* structure of the algebra, "tuple" a tuple of structures.                *)
(***************************************************************************)
NotSet == [t |-> "NotSet", v |-> 0]

is_set(o) == o.t # "NotSet"

Float(n) == [t |-> "float", v |-> n]

UTPM(n) == [t |-> "UTPM", v |-> n]

Tuple(s) == [t |-> "tuple", v |-> s]

Fail == [t |-> "raise", v |-> 0]

Raised(o) == o.t = "raise"

isscalar(x) == x.t = "float"

zeros_like(x) == UTPM(0)

\* Numbers the environment supplies as leaf values and replay inputs, and
\* as seeds of a pullback.
Nums == {2, 3}

SeedNums == {0, 1}

LeafValues == {UTPM(3), Float(2)}

\* A replay input has the type of the value it replaces.
InputsLike(x) ==
    IF x.t = "float" THEN {Float(n) : n \in Nums}
    ELSE IF x.t = "UTPM" THEN {UTPM(n) : n \in Nums}
    ELSE {Tuple(<<UTPM(1), UTPM(n)>>) : n \in Nums}

(***************************************************************************)
(* Sequence helpers.                                                       *)
(***************************************************************************)
Range(s) == {s[i] : i \in 1 .. Len(s)}

Min(S) == CHOOSE m \in S : \A k \in S : m <= k

RECURSIVE SetToSeq(_)
SetToSeq(S) ==
    IF S = {} THEN <<>>
    ELSE LET m == Min(S) IN <<m>> \o SetToSeq(S \ {m})

\* The order-preserving sub-lists of s of at most MaxList entries.
SubLists(s) ==
    {[k \in 1 .. Cardinality(S) |-> s[SetToSeq(S)[k]]] :
        S \in {T \in SUBSET (1 .. Len(s)) : Cardinality(T) <= MaxList}}

\* The sequences of length n whose k-th entry is drawn from D[k].
RECURSIVE Lists(_, _)
Lists(D, n) ==
    IF n = 0 THEN {<<>>}
    ELSE {Append(l, d) : l \in Lists(D, n - 1), d \in D[n]}

(***************************************************************************)
(* Forward evaluators: the function of the value class applied to args.    *)
(* A traced operator is recorded as the method of the class its first      *)
(* operand had at tracing time (self.x.__class__.__add__, ...); here that  *)
(* class is always the structure class of the algebra (tuple for           *)
(* __getitem__), and the method raises when replayed on a first operand of *)
(* another class.  qr stands for the two-output operations of the algebra  *)
(* (qr, eigh): its value is a tuple of two structures, and both of them    *)
(* depend on the operand.                                                  *)
(***************************************************************************)
Id(x) == x

Forward(func, args, funcargs) ==
    CASE func = "Id" -> Id(args[1])
      [] func = "__add__" ->
            IF args[1].t = "UTPM" THEN UTPM(args[1].v + args[2].v) ELSE Fail
      [] func = "__mul__" ->
            IF args[1].t = "UTPM" THEN UTPM(args[1].v * args[2].v) ELSE Fail
      [] func = "qr" ->
            IF args[1].t = "UTPM" THEN Tuple(<<args[1], args[1]>>) ELSE Fail
      [] func = "__getitem__" ->
            IF args[1].t = "tuple" /\ funcargs[1] + 1 \in 1 .. Len(args[1].v)
            THEN args[1].v[funcargs[1] + 1] ELSE Fail
      [] OTHER -> Fail

BinaryOps == {"__add__", "__mul__"}

(***************************************************************************)
(* CGraph.__init__ and CGraph.append.                                      *)
(***************************************************************************)
NewGraph ==
    [functionCount |-> 0, functionList |-> <<>>,
     dependentFunctionList |-> <<>>, independentFunctionList |-> <<>>]

\* the counter is not advanced
append_NoCount(G, func) == [G EXCEPT !.functionList = Append(@, func)]

append(G, func) ==
    [G EXCEPT !.functionCount = @ + 1, !.functionList = Append(@, func)]

(***************************************************************************)
(* The running replay call and the outcome of the last one.                *)
(*   call.pre   the heap when the call started                             *)
(*   call.again the call repeats the previous call, which returned         *)
(*              normally, with nothing done in between                     *)
(*   last       the last replay call that ended, how ("ok", "error") and   *)
(*              whether it was a repetition; any other operation resets it *)
(***************************************************************************)
NoCall == [op |-> "none", g |-> 0, arg |-> <<>>, i |-> 0, pre |-> <<>>, again |-> FALSE]

NoLast == [op |-> "none", g |-> 0, arg |-> <<>>, res |-> "none", again |-> FALSE]

\* The last call of a function of the derivative oracle: the function, its
\* argument and keyword arguments, what it returned or raised, and the
\* functions it invoked, in order.
NoKwargs == [out |-> "absent", n |-> [given |-> FALSE, v |-> 0], other |-> FALSE]

NoOracle == [fn |-> "none", x |-> 0, kwargs |-> NoKwargs, res |-> [t |-> "none"],
             trace |-> <<>>]

Init ==
    /\ oracle = NoOracle
    /\ heap = <<>>
    /\ graphs = <<>>
    /\ cgraph = 0
    /\ pc = "idle"
    /\ call = NoCall
    /\ last = NoLast

\* cg = CGraph(), while fewer than n graphs exist
CGraphInit(n) ==
    /\ pc = "idle"
    /\ Len(graphs) < n
    /\ graphs' = Append(graphs, NewGraph)
    /\ cgraph' = Len(graphs) + 1
    /\ last' = NoLast
    /\ UNCHANGED <<heap, pc, call, oracle>>

(***************************************************************************)
(* Function.get_ID, Function.create, Function.push_forward.  They act on   *)
(* the pair (heap h, graphs gs) and return the new pair.                   *)
(***************************************************************************)
get_ID(gs) == gs[cgraph].functionCount

\* the node is not appended to the current graph
create_NoAppend(h, gs, x, fargs, func, f, funcargs) ==
    [ok |-> TRUE,
     heap |-> [k \in 1 .. f |->
                 IF k = f
                 THEN [x |-> x, args |-> fargs, func |-> func, ID |-> get_ID(gs),
                       funcargs |-> funcargs, xbar |-> NotSet]
                 ELSE h[k]],
     graphs |-> gs]

\* the node is created with a zero adjoint
create_ZeroAdjoint(h, gs, x, fargs, func, f, funcargs) ==
    [ok |-> TRUE,
     heap |-> [k \in 1 .. f |->
                 IF k = f
                 THEN [x |-> x, args |-> fargs, func |-> func, ID |-> get_ID(gs),
                       funcargs |-> funcargs, xbar |-> UTPM(0)]
                 ELSE h[k]],
     graphs |-> [gs EXCEPT ![cgraph] = append(@, f)]]

\* f is the index of the object that becomes the node: the object under
\* construction in Function(x), or the fresh Function() of line 192.
create(h, gs, x, fargs, func, f, funcargs) ==
    [ok |-> TRUE,
     heap |-> [k \in 1 .. f |->
                 IF k = f
                 THEN [x |-> x, args |-> fargs, func |-> func, ID |-> get_ID(gs),
                       funcargs |-> funcargs, xbar |-> NotSet]
                 ELSE h[k]],
     graphs |-> [gs EXCEPT ![cgraph] = append(@, f)]]

\* the replayed value is computed and not stored in Fout
push_forward_NoStore(h, gs, func, Fargs, Fout, funcargs) ==
    LET out == Forward(func, [k \in 1 .. Len(Fargs) |-> h[Fargs[k]].x], funcargs)
    IN  IF Raised(out) THEN [ok |-> FALSE, heap |-> h, graphs |-> gs]
        ELSE IF Fout = 0
        THEN create(h, gs, out, Fargs, func, Len(h) + 1, funcargs)
        ELSE [ok |-> TRUE, heap |-> h, graphs |-> gs]

\* Fout is ignored: a node is created on replay too
push_forward_AlwaysCreate(h, gs, func, Fargs, Fout, funcargs) ==
    LET out == Forward(func, [k \in 1 .. Len(Fargs) |-> h[Fargs[k]].x], funcargs)
    IN  IF Raised(out) THEN [ok |-> FALSE, heap |-> h, graphs |-> gs]
        ELSE create(h, gs, out, Fargs, func, Len(h) + 1, funcargs)

\* the replay also resets the adjoint of Fout
push_forward_ClearAdjoint(h, gs, func, Fargs, Fout, funcargs) ==
    LET out == Forward(func, [k \in 1 .. Len(Fargs) |-> h[Fargs[k]].x], funcargs)
    IN  IF Raised(out) THEN [ok |-> FALSE, heap |-> h, graphs |-> gs]
        ELSE IF Fout = 0
        THEN create(h, gs, out, Fargs, func, Len(h) + 1, funcargs)
        ELSE [ok |-> TRUE, heap |-> [h EXCEPT ![Fout].x = out, ![Fout].xbar = NotSet],
              graphs |-> gs]

\* Fout = 0 stands for Fout = None.
push_forward(h, gs, func, Fargs, Fout, funcargs) ==
    LET out == Forward(func, [k \in 1 .. Len(Fargs) |-> h[Fargs[k]].x], funcargs)
    IN  IF Raised(out) THEN [ok |-> FALSE, heap |-> h, graphs |-> gs]
        ELSE IF Fout = 0
        THEN create(h, gs, out, Fargs, func, Len(h) + 1, funcargs)
        ELSE [ok |-> TRUE, heap |-> [h EXCEPT ![Fout].x = out], graphs |-> gs]

\* Function(x) with x not None.  Without a CGraph (Function.cgraph = None)
\* line 198 raises and no node comes into being.
FunctionInit(x) ==
    /\ pc = "idle"
    /\ cgraph # 0
    /\ LET r == create(heap, graphs, x, <<Len(heap) + 1>>, "Id", Len(heap) + 1, <<>>)
       IN  heap' = r.heap /\ graphs' = r.graphs
    /\ last' = NoLast
    /\ UNCHANGED <<cgraph, pc, call, oracle>>

\* The traced operators: Function.push_forward(func, Fargs, funcargs = ...).
\* When the forward evaluator raises, no node comes into being.
Trace(func, Fargs, funcargs) ==
    /\ pc = "idle"
    /\ cgraph # 0
    /\ LET r == push_forward(heap, graphs, func, Fargs, 0, funcargs)
       IN  /\ r.ok
           /\ heap' = r.heap
           /\ graphs' = r.graphs
    /\ last' = NoLast
    /\ UNCHANGED <<cgraph, pc, call, oracle>>

\* __add__, __mul__ on two nodes whose values are structures of the algebra
TraceBinary(func) ==
    \E a, b \in 1 .. Len(heap) :
        /\ heap[a].x.t = "UTPM"
        /\ heap[b].x.t = "UTPM"
        /\ Trace(func, <<a, b>>, <<>>)

TraceQr ==
    \E a \in 1 .. Len(heap) :
        /\ heap[a].x.t = "UTPM"
        /\ Trace("qr", <<a>>, <<>>)

TraceGetitem ==
    \E a \in 1 .. Len(heap), sl \in 0 .. 1 :
        /\ heap[a].x.t = "tuple"
        /\ Trace("__getitem__", <<a>>, <<sl>>)

\* cg.independentFunctionList = l, cg.dependentFunctionList = l
SetIndependent(g, l) ==
    /\ pc = "idle"
    /\ l # graphs[g].independentFunctionList
    /\ graphs' = [graphs EXCEPT ![g].independentFunctionList = l]
    /\ last' = NoLast
    /\ UNCHANGED <<heap, cgraph, pc, call, oracle>>

SetDependent(g, l) ==
    /\ pc = "idle"
    /\ l # graphs[g].dependentFunctionList
    /\ graphs' = [graphs EXCEPT ![g].dependentFunctionList = l]
    /\ last' = NoLast
    /\ UNCHANGED <<heap, cgraph, pc, call, oracle>>

(***************************************************************************)
(* Entering and leaving a replay call (by return or by an exception).      *)
(***************************************************************************)
Enter(op, g, arg, first) ==
    /\ pc = "idle"
    /\ pc' = first
    /\ call' = [op |-> op, g |-> g, arg |-> arg, i |-> 0, pre |-> heap,
                again |-> /\ last.op = op /\ last.g = g /\ last.arg = arg
                          /\ last.res = "ok"]
    /\ last' = NoLast
    /\ UNCHANGED <<heap, graphs, cgraph, oracle>>

Leave(res) ==
    /\ pc' = "idle"
    /\ call' = NoCall
    /\ last' = [op |-> call.op, g |-> call.g, arg |-> call.arg, res |-> res,
                again |-> call.again]

(***************************************************************************)
(* CGraph.push_forward(x_list)                                             *)
(***************************************************************************)
\* The x_list arguments tried: one entry per independent node, one entry
\* short, or one entry more.
XLists(g) ==
    LET lst == graphs[g].independentFunctionList
        D == [k \in 1 .. Len(lst) + 1 |->
                IF k <= Len(lst) THEN InputsLike(heap[heap[lst[k]].args[1]].x)
                ELSE {UTPM(2)}]
    IN  UNION {Lists(D, n) : n \in {m \in Len(lst) - 1 .. Len(lst) + 1 : m >= 0}}

PushForwardCall(g, x_list) == Enter("push_forward", g, x_list, "pf_assign")

\* lines 105-106: for nf, f in enumerate(lst): f.args[0].x = x_list[nf]
RECURSIVE AssignInputs(_, _, _, _)
AssignInputs(h, lst, x_list, nf) ==
    IF nf > Len(lst) THEN [ok |-> TRUE, heap |-> h]
    ELSE IF nf > Len(x_list) THEN [ok |-> FALSE, heap |-> h]
    ELSE AssignInputs([h EXCEPT ![h[lst[nf]].args[1]].x = x_list[nf]],
                      lst, x_list, nf + 1)

PfAssign ==
    /\ pc = "pf_assign"
    /\ LET r == AssignInputs(heap, graphs[call.g].independentFunctionList, call.arg, 1)
       IN  /\ heap' = r.heap
           /\ IF r.ok
              THEN /\ pc' = "pf_walk"
                   /\ UNCHANGED <<call, last>>
              ELSE Leave("error")
    /\ UNCHANGED <<graphs, cgraph, oracle>>

\* the list is walked from its end to its start
RECURSIVE WalkBackward(_, _, _, _)
WalkBackward(h, gs, lst, i) ==
    IF i < 1 THEN [ok |-> TRUE, heap |-> h, graphs |-> gs]
    ELSE LET f == lst[i]
             r == push_forward(h, gs, h[f].func, h[f].args, f, h[f].funcargs)
         IN  IF r.ok THEN WalkBackward(r.heap, r.graphs, lst, i - 1) ELSE r

WalkForward_Backward(h, gs, lst, i) == WalkBackward(h, gs, lst, Len(lst))

\* lines 109-110: for f in self.functionList, from position i on
RECURSIVE WalkForward(_, _, _, _)
WalkForward(h, gs, lst, i) ==
    IF i > Len(lst) THEN [ok |-> TRUE, heap |-> h, graphs |-> gs]
    ELSE LET f == lst[i]
             r == push_forward(h, gs, h[f].func, h[f].args, f, h[f].funcargs)
         IN  IF r.ok THEN WalkForward(r.heap, r.graphs, lst, i + 1) ELSE r

PfWalk ==
    /\ pc = "pf_walk"
    /\ LET r == WalkForward(heap, graphs, graphs[call.g].functionList, 1)
       IN  /\ heap' = r.heap
           /\ graphs' = r.graphs
           /\ Leave(IF r.ok THEN "ok" ELSE "error")
    /\ UNCHANGED <<cgraph, oracle>>

(***************************************************************************)
(* Pullback evaluators of the algebra: pb_<func>(ybar, args, y, out = the  *)
(* arguments' adjoints), accumulating in place into the adjoints of the    *)
(* argument nodes, one argument after the other.                           *)
(***************************************************************************)
\* adjoint storage of node a (slot k of it when it is a tuple) += d
Accumulate(h, a, d) == [h EXCEPT ![a].xbar.v = @ + d]

AccumulateSlot(h, a, k, d) == [h EXCEPT ![a].xbar.v[k].v = @ + d]

HasEvaluator(cls, func) ==
    /\ cls = "UTPM"
    /\ func \in {"Id", "__add__", "__mul__", "qr", "__getitem__"}

Evaluate(h, F) ==
    LET n == h[F]
        a1 == n.args[1]
        a2 == n.args[2]
    IN  CASE n.func = "Id" -> [ok |-> TRUE, heap |-> h]
          [] n.func = "__add__" ->
                IF h[a1].xbar.t = "UTPM" /\ h[a2].xbar.t = "UTPM"
                THEN [ok |-> TRUE,
                      heap |-> Accumulate(Accumulate(h, a1, n.xbar.v), a2, n.xbar.v)]
                ELSE [ok |-> FALSE, heap |-> h]
          [] n.func = "__mul__" ->
                IF h[a1].xbar.t = "UTPM" /\ h[a2].xbar.t = "UTPM"
                THEN [ok |-> TRUE,
                      heap |-> Accumulate(Accumulate(h, a1, n.xbar.v * h[a2].x.v),
                                          a2, n.xbar.v * h[a1].x.v)]
                ELSE [ok |-> FALSE, heap |-> h]
          [] n.func = "qr" ->
                IF h[a1].xbar.t = "UTPM" /\ n.xbar.t = "tuple"
                THEN [ok |-> TRUE,
                      heap |-> Accumulate(h, a1, n.xbar.v[1].v + n.xbar.v[2].v)]
                ELSE [ok |-> FALSE, heap |-> h]
          [] n.func = "__getitem__" ->
                IF h[a1].xbar.t = "tuple" /\ n.xbar.t = "UTPM"
                THEN [ok |-> TRUE,
                      heap |-> AccumulateSlot(h, a1, n.funcargs[1] + 1, n.xbar.v)]
                ELSE [ok |-> FALSE, heap |-> h]

(***************************************************************************)
(* Function.xbar_from_x, Function.pullback, CGraph.pullback(xbar_list)     *)
(***************************************************************************)
xbar_from_x(x) ==
    IF isscalar(x) THEN Float(0)
    ELSE IF x.t = "tuple" THEN Tuple([k \in 1 .. Len(x.v) |-> zeros_like(x.v[k])])
    ELSE zeros_like(x)

\* a node without an evaluator is skipped
pullback_IgnoreMissing(h, F) ==
    LET cls == IF h[F].x.t = "tuple" THEN h[F].x.v[1].t ELSE h[F].x.t
    IN  IF HasEvaluator(cls, h[F].func) THEN Evaluate(h, F)
        ELSE [ok |-> TRUE, heap |-> h]

\* of a node with several outputs only the adjoint of the first output is
\* handed to the evaluator
pullback_FirstOutputOnly(h, F) ==
    LET cls == IF h[F].x.t = "tuple" THEN h[F].x.v[1].t ELSE h[F].x.t
        masked == [h EXCEPT ![F].xbar.v =
                        [k \in DOMAIN @ |-> IF k = 1 THEN @[k] ELSE UTPM(0)]]
        r == Evaluate(masked, F)
    IN  IF ~HasEvaluator(cls, h[F].func) THEN [ok |-> FALSE, heap |-> h]
        ELSE IF h[F].x.t = "tuple" /\ h[F].xbar.t = "tuple"
        THEN [ok |-> r.ok, heap |-> [r.heap EXCEPT ![F].xbar = h[F].xbar]]
        ELSE Evaluate(h, F)

\* Function.pullback(F): look the evaluator up by the class name of the
\* value and the name of the function, then call it.
pullback(h, F) ==
    LET cls == IF h[F].x.t = "tuple" THEN h[F].x.v[1].t ELSE h[F].x.t
    IN  IF HasEvaluator(cls, h[F].func) THEN Evaluate(h, F)
        ELSE [ok |-> FALSE, heap |-> h]

\* The xbar_list arguments tried: one seed per dependent node, one short,
\* or one more.
XbarLists(g) ==
    LET n == Len(graphs[g].dependentFunctionList)
    IN  UNION {Lists([k \in 1 .. n + 1 |-> IF k <= n THEN SeedNums ELSE {1}], m) :
                 m \in {j \in n - 1 .. n + 1 : j >= 0}}

PullbackCall(g, xbar_list) == Enter("pullback", g, xbar_list, "pb_check")

\* an adjoint that is already set is kept
InitAdjoints_KeepSet(h, lst) ==
    [k \in 1 .. Len(h) |->
        IF k \in Range(lst) /\ ~is_set(h[k].xbar)
        THEN [h[k] EXCEPT !.xbar = xbar_from_x(h[k].x)] ELSE h[k]]

\* lines 130-132: f.xbar_from_x() for f in self.functionList
InitAdjoints(h, lst) ==
    [k \in 1 .. Len(h) |->
        IF k \in Range(lst) THEN [h[k] EXCEPT !.xbar = xbar_from_x(h[k].x)] ELSE h[k]]

\* the check of line 127 is missing
NoDependents_Unchecked(G) == FALSE

\* line 127
NoDependents(G) == Len(G.dependentFunctionList) = 0

\* lines 127-132: the check, then the initialisation of every adjoint
PbInit ==
    /\ pc = "pb_check"
    /\ IF NoDependents(graphs[call.g])
       THEN /\ Leave("error")
            /\ UNCHANGED heap
       ELSE /\ heap' = InitAdjoints(heap, graphs[call.g].functionList)
            /\ pc' = "pb_seed"
            /\ UNCHANGED <<call, last>>
    /\ UNCHANGED <<graphs, cgraph, oracle>>

\* the seed is added to the adjoint
RECURSIVE SeedAdjoints_Accumulate(_, _, _, _)
SeedAdjoints_Accumulate(h, lst, xbar_list, nf) ==
    IF nf > Len(lst) THEN [ok |-> TRUE, heap |-> h]
    ELSE IF nf > Len(xbar_list) THEN [ok |-> FALSE, heap |-> h]
    ELSE IF h[lst[nf]].xbar.t # "UTPM" THEN [ok |-> FALSE, heap |-> h]
    ELSE SeedAdjoints_Accumulate([h EXCEPT ![lst[nf]].xbar.v = @ + xbar_list[nf]],
                                 lst, xbar_list, nf + 1)

\* lines 134-135: for nf, f in enumerate(lst): f.xbar[...] = xbar_list[nf]
\* Item assignment works on a structure of the algebra only.
RECURSIVE SeedAdjoints(_, _, _, _)
SeedAdjoints(h, lst, xbar_list, nf) ==
    IF nf > Len(lst) THEN [ok |-> TRUE, heap |-> h]
    ELSE IF nf > Len(xbar_list) THEN [ok |-> FALSE, heap |-> h]
    ELSE IF h[lst[nf]].xbar.t # "UTPM" THEN [ok |-> FALSE, heap |-> h]
    ELSE SeedAdjoints([h EXCEPT ![lst[nf]].xbar = UTPM(xbar_list[nf])],
                      lst, xbar_list, nf + 1)

PbSeed ==
    /\ pc = "pb_seed"
    /\ LET r == SeedAdjoints(heap, graphs[call.g].dependentFunctionList, call.arg, 1)
       IN  /\ heap' = r.heap
           /\ IF r.ok
              THEN /\ pc' = "pb_walk"
                   /\ call' = [call EXCEPT !.i = Len(graphs[call.g].functionList)]
                   /\ UNCHANGED last
              ELSE Leave("error")
    /\ UNCHANGED <<graphs, cgraph, oracle>>

\* the list is walked in creation order
Reversed_Identity(lst) == lst

\* lines 138-140, one iteration: the node at position i of functionList[::-1]
Reversed(lst) == [k \in 1 .. Len(lst) |-> lst[Len(lst) + 1 - k]]

PbWalk ==
    /\ pc = "pb_walk"
    /\ call.i >= 1
    /\ LET lst == Reversed(graphs[call.g].functionList)
           r == pullback(heap, lst[Len(lst) + 1 - call.i])
       IN  /\ heap' = r.heap
           /\ IF r.ok
              THEN /\ call' = [call EXCEPT !.i = @ - 1]
                   /\ UNCHANGED <<pc, last>>
              ELSE Leave("error")
    /\ UNCHANGED <<graphs, cgraph, oracle>>

PbReturn ==
    /\ pc = "pb_walk"
    /\ call.i = 0
    /\ Leave("ok")
    /\ UNCHANGED <<heap, graphs, cgraph, oracle>>

(***************************************************************************)
(* The derivative oracle: nthderiv.py.                                     *)
(*                                                                         *)
(* A call is f(x, **kwargs).  The keyword arguments are a record: out is   *)
(* "absent", "None" or "buf" (an array to write into), n is given or not,  *)
(* other says whether any other keyword is present.  x is an integer that  *)
(* stands for the real number of that value.                               *)
(*                                                                         *)
(* numpy, scipy and math are libraries: what they compute is kept as a     *)
(* term.  Np(f, x, out) is the library function np.f applied to x (a       *)
(* number, nan or inf: outside of its domain numpy warns and returns nan,  *)
(* it does not raise); Deriv(f, x, n, out) is the value of the closed form *)
(* the decorated function f evaluates for the order n.                     *)
(***************************************************************************)
DOM_ALL == "all real numbers"

DOM_POS == "positive real numbers"

DOM_GT_1 == "real numbers greater than 1"

DOM_GT_NEG_1 == "real numbers greater than -1"

DOM_ABS_LT_1 == "real numbers with absolute value less than 1"

\* The decorated functions modelled, and the domain= of their decorator.
HypFunctions == {"hyp0f1", "hyp1f1", "hyp1f2", "hyp2f0", "hyp2f1", "hyp3f0"}

OracleFunctions ==
    {"exp", "log", "log2", "log10", "log1p", "arcsin", "arccos", "arccosh", "hyp_pfq"}
        \cup HypFunctions

domain(f) ==
    CASE f \in {"exp", "hyp_pfq"} \cup HypFunctions -> DOM_ALL
      [] f \in {"log", "log2", "log10"} -> DOM_POS
      [] f = "log1p" -> DOM_GT_NEG_1
      [] f \in {"arcsin", "arccos"} -> DOM_ABS_LT_1
      [] f = "arccosh" -> DOM_GT_1

Raise(e) == [t |-> "raise", e |-> e]

Np(f, x, out) == [t |-> "np", f |-> f, x |-> x, out |-> out]

Deriv(f, x, n, out) == [t |-> "deriv", f |-> f, x |-> x, n |-> n, out |-> out]

\* out /= c
Divided(a, c) == [t |-> "divided", a |-> a, by |-> c]

\* np.negative(a, out)
Negative(a, out) == [t |-> "negative", a |-> a, out |-> out]

Invoked(who, f, n, out) == [who |-> who, f |-> f, n |-> n, out |-> out]

\* The positional arguments of a call are a sequence that starts with x (the
\* parameters before x, such as the lists A and B of hyp_pfq, are left
\* out); the functions called have the parameters (x, out) or (x, out, n).
\* fn_zeroth_deriv(*args) and fn_zeroth_deriv(*args, out=out): the library
\* function takes x and out; out is "None" in the first form.
fn_zeroth_deriv(f, args, out) ==
    IF Len(args) = 1
    THEN [res |-> Np(f, args[1], out), trace |-> <<Invoked("zeroth", f, 0, out)>>]
    ELSE IF Len(args) = 2 /\ out = "None"
    THEN [res |-> Np(f, args[1], args[2]),
          trace |-> <<Invoked("zeroth", f, 0, args[2])>>]
    ELSE [res |-> Raise("TypeError"), trace |-> <<>>]

RECURSIVE wrapped_f(_, _, _)

\* The decorated function f itself, called as f(x, out=out, n=n).
Formula(f, x, out, n) ==
    LET me == <<Invoked("formula", f, n, out)>>
    IN  CASE f \in {"exp", "log", "log1p", "arcsin", "arccosh", "hyp_pfq"} ->
                [res |-> Deriv(f, x, n, out), trace |-> me]
          [] f \in {"log2", "log10"} ->
                LET r == wrapped_f("log", <<x>>,
                                   [out |-> out, n |-> [given |-> TRUE, v |-> n],
                                    other |-> FALSE])
                IN  [res |-> IF r.res.t = "raise" THEN r.res
                             ELSE Divided(r.res, IF f = "log2" THEN "np.log(2)"
                                                 ELSE "np.log(10)"),
                     trace |-> me \o r.trace]
          [] f = "arccos" ->
                LET r == wrapped_f("arcsin", <<x>>, NoKwargs)
                IN  [res |-> IF r.res.t = "raise" THEN r.res ELSE Negative(r.res, out),
                     trace |-> me \o r.trace]
          [] f \in HypFunctions ->
                LET r == wrapped_f("hyp_pfq", <<x, out, n>>, NoKwargs)
                IN  [res |-> r.res, trace |-> me \o r.trace]

\* f(*args, out=out, n=n): a second positional argument is a second value
\* for out
CallFormula(f, args, out, n) ==
    IF Len(args) = 1 THEN Formula(f, args[1], out, n)
    ELSE [res |-> Raise("TypeError"), trace |-> <<>>]

\* the order is not checked
wrapped_f_NoOrderCheck(f, args, kwargs) ==
    LET out == IF kwargs.out = "absent" THEN "None" ELSE kwargs.out
        n == IF kwargs.n.given THEN kwargs.n.v ELSE 0
    IN  IF kwargs.other THEN [res |-> Raise("ValueError"), trace |-> <<>>]
        ELSE IF n # 0 THEN CallFormula(f, args, out, n)
        ELSE fn_zeroth_deriv(f, args, out)

\* basecase(fn_zeroth_deriv, domain, extras)(f): lines 93-106
wrapped_f(f, args, kwargs) ==
    LET out == IF kwargs.out = "absent" THEN "None" ELSE kwargs.out
        n == IF kwargs.n.given THEN kwargs.n.v ELSE 0
    IN  IF kwargs.other THEN [res |-> Raise("ValueError"), trace |-> <<>>]
        ELSE IF n < 0 THEN [res |-> Raise("ValueError"), trace |-> <<>>]
        ELSE IF n # 0 THEN CallFormula(f, args, out, n)
        ELSE fn_zeroth_deriv(f, args, out)

\* The calls tried.
XValues == (0 - MaxX) .. MaxX

Orders == (0 - 1) .. MaxOrder

KwargsTried ==
    {[out |-> o, n |-> nn, other |-> b] :
        o \in {"absent", "None", "buf"},
        nn \in {[given |-> FALSE, v |-> 0]} \cup {[given |-> TRUE, v |-> k] : k \in Orders},
        b \in BOOLEAN}

OracleCall(f, x, kwargs) ==
    /\ LET r == wrapped_f(f, <<x>>, kwargs)
       IN  oracle' = [fn |-> f, x |-> x, kwargs |-> kwargs, res |-> r.res,
                      trace |-> r.trace]
    /\ UNCHANGED <<heap, graphs, cgraph, pc, call, last>>

Nodes(g) == Range(graphs[g].functionList)

(***************************************************************************)
(* Specifications.                                                         *)
(*   Spec         one tracing session: a single CGraph of at most MaxNodes *)
(*                nodes, traced and replayed                               *)
(*   SpecGraphs   up to MaxGraphs CGraph objects, tracing only             *)
(*   SpecScenario a session that creates ScenarioLeaves leaves with the    *)
(*                values 2, 3, 4, ..., combines them by __add__ and        *)
(*                __mul__ up to ScenarioNodes nodes, declares the leaves   *)
(*                independent and the last node dependent and pulls back   *)
(*                the seed 1                                               *)
(*   SpecScatter  a session that creates one leaf with the value 3,        *)
(*                applies qr to it, indexes the result twice, combines by  *)
(*                __add__ and __mul__ up to ScatterNodes nodes, declares   *)
(*                the last node dependent and pulls back the seed 1        *)
(*   SpecFailure  one tracing session whose replay inputs may have another *)
(*                class than the values they replace                       *)
(*   SpecSeed     one tracing session of at most SeedNodes nodes whose     *)
(*                dependent list is any list of at most SeedList nodes, a  *)
(*                node possibly more than once, with pullbacks             *)
(*   SpecRepeat   up to MaxGraphs CGraph objects with leaves of the value  *)
(*                3, __add__ and __mul__, at most MaxNodes nodes in all,   *)
(*                one dependent node per graph, and pullbacks of the seed  *)
(*                1 while no adjoint exceeds MaxAdjoint; a node may have   *)
(*                arguments in an older graph                              *)
(*   SpecOracle   calls of the functions of the derivative oracle          *)
(***************************************************************************)
TraceStep ==
    /\ Len(heap) < MaxNodes
    /\ \/ \E x \in LeafValues : FunctionInit(x)
       \/ \E func \in BinaryOps : TraceBinary(func)
       \/ TraceQr
       \/ TraceGetitem

ReplayStep ==
    \/ \E g \in 1 .. Len(graphs) : \E l \in SubLists(graphs[g].functionList) :
            SetIndependent(g, l)
    \/ \E g \in 1 .. Len(graphs) : \E l \in SubLists(graphs[g].functionList) :
            SetDependent(g, l)
    \/ \E g \in 1 .. Len(graphs) : \E x_list \in XLists(g) : PushForwardCall(g, x_list)
    \/ PfAssign
    \/ PfWalk
    \/ \E g \in 1 .. Len(graphs) : \E xbar_list \in XbarLists(g) : PullbackCall(g, xbar_list)
    \/ PbInit
    \/ PbSeed
    \/ PbWalk
    \/ PbReturn

Next ==
    \/ CGraphInit(1)
    \/ TraceStep
    \/ ReplayStep

Spec == Init /\ [][Next]_vars

NextGraphs ==
    \/ CGraphInit(MaxGraphs)
    \/ TraceStep

SpecGraphs == Init /\ [][NextGraphs]_vars

ScenarioLeaves == 3

ScenarioNodes == 5

NextScenario ==
    \/ CGraphInit(1)
    \/ /\ Len(heap) < ScenarioLeaves
       /\ FunctionInit(UTPM(Len(heap) + 2))
    \/ /\ Len(heap) >= ScenarioLeaves
       /\ Len(heap) < ScenarioNodes
       /\ \E func \in BinaryOps : TraceBinary(func)
    \/ /\ Len(heap) >= ScenarioLeaves
       /\ SetIndependent(1, [k \in 1 .. ScenarioLeaves |-> k])
    \/ /\ Len(heap) >= ScenarioLeaves
       /\ SetDependent(1, <<Len(heap)>>)
    \/ /\ Len(heap) >= ScenarioLeaves
       /\ graphs[1].dependentFunctionList = <<Len(heap)>>
       /\ PullbackCall(1, <<1>>)
    \/ PbInit
    \/ PbSeed
    \/ PbWalk
    \/ PbReturn

SpecScenario == Init /\ [][NextScenario]_vars

ScatterNodes == 6

NextScatter ==
    \/ CGraphInit(1)
    \/ /\ Len(heap) = 0
       /\ FunctionInit(UTPM(3))
    \/ /\ Len(heap) = 1
       /\ TraceQr
    \/ /\ Len(heap) \in 2 .. 3
       /\ TraceGetitem
    \/ /\ Len(heap) \in 4 .. ScatterNodes - 1
       /\ \E func \in BinaryOps : TraceBinary(func)
    \/ /\ Len(heap) >= 1
       /\ SetDependent(1, <<Len(heap)>>)
    \/ /\ Len(heap) >= 1
       /\ graphs[1].dependentFunctionList = <<Len(heap)>>
       /\ PullbackCall(1, <<1>>)
    \/ PbInit
    \/ PbSeed
    \/ PbWalk
    \/ PbReturn

SpecScatter == Init /\ [][NextScatter]_vars

\* A session in which replay inputs may have another class than the value
\* they replace, so that a forward evaluator can raise during a replay.
AnyInputs(x) ==
    IF x.t = "tuple" THEN InputsLike(x) ELSE {UTPM(2), Float(2)}

AnyXLists(g) ==
    LET lst == graphs[g].independentFunctionList
    IN  Lists([k \in 1 .. Len(lst) |-> AnyInputs(heap[heap[lst[k]].args[1]].x)],
              Len(lst))

NextFailure ==
    \/ CGraphInit(1)
    \/ TraceStep
    \/ /\ cgraph = 1
       /\ \E l \in SubLists(graphs[1].functionList) : SetIndependent(1, l)
    \/ /\ cgraph = 1
       /\ \E l \in SubLists(graphs[1].functionList) : SetDependent(1, l)
    \/ /\ cgraph = 1
       /\ \E x_list \in AnyXLists(1) : PushForwardCall(1, x_list)
    \/ PfAssign
    \/ PfWalk
    \/ /\ cgraph = 1
       /\ PullbackCall(1, [k \in 1 .. Len(graphs[1].dependentFunctionList) |-> 1])
    \/ PbInit
    \/ PbSeed
    \/ PbWalk
    \/ PbReturn

SpecFailure == Init /\ [][NextFailure]_vars

SeedNodes == 2

SeedList == 2

DependentLists(g) ==
    UNION {[1 .. n -> Nodes(g)] : n \in 0 .. SeedList}

NextSeed ==
    \/ CGraphInit(1)
    \/ /\ Len(heap) < SeedNodes
       /\ \/ \E x \in LeafValues : FunctionInit(x)
          \/ \E func \in BinaryOps : TraceBinary(func)
    \/ /\ cgraph = 1
       /\ \E l \in DependentLists(1) : SetDependent(1, l)
    \/ /\ cgraph = 1
       /\ \E xbar_list \in [1 .. Len(graphs[1].dependentFunctionList) -> SeedNums] :
            PullbackCall(1, xbar_list)
    \/ PbInit
    \/ PbSeed
    \/ PbWalk
    \/ PbReturn

SpecSeed == Init /\ [][NextSeed]_vars

MaxAdjoint == 12

NextRepeat ==
    \/ CGraphInit(MaxGraphs)
    \/ /\ Len(heap) < MaxNodes
       /\ \/ FunctionInit(UTPM(3))
          \/ \E func \in BinaryOps : TraceBinary(func)
    \/ \E g \in 1 .. Len(graphs) : \E f \in Nodes(g) : SetDependent(g, <<f>>)
    \/ \E g \in 1 .. Len(graphs) :
            /\ Len(graphs[g].dependentFunctionList) = 1
            /\ \A k \in 1 .. Len(heap) : heap[k].xbar.v <= MaxAdjoint
            /\ PullbackCall(g, <<1>>)
    \/ PbInit
    \/ PbSeed
    \/ PbWalk
    \/ PbReturn

SpecRepeat == Init /\ [][NextRepeat]_vars

NextOracle ==
    \E f \in OracleFunctions, x \in XValues, kwargs \in KwargsTried :
        OracleCall(f, x, kwargs)

SpecOracle == Init /\ [][NextOracle]_vars

(***************************************************************************)
(* Properties.                                                             *)
(***************************************************************************)
Returned(op, res) == pc = "idle" /\ last.op = op /\ last.res = res

RECURSIVE SumFn(_)
SumFn(fn) ==
    IF DOMAIN fn = {} THEN 0
    ELSE LET d == CHOOSE e \in DOMAIN fn : TRUE
         IN  fn[d] + SumFn([e \in DOMAIN fn \ {d} |-> fn[e]])

Consistent(h, f) ==
    h[f].x = Forward(h[f].func, [k \in 1 .. Len(h[f].args) |-> h[h[f].args[k]].x],
                     h[f].funcargs)

C2_ForwardConsistency ==
    Returned("push_forward", "ok") => \A f \in Nodes(last.g) : Consistent(heap, f)

C2_Witness ==
    /\ Returned("push_forward", "ok")
    /\ \E f \in Nodes(last.g) : heap[f].func = "__mul__" /\ heap[f].x = UTPM(4)

\* C3: when CGraph.pullback has returned normally, the adjoint of every node
\* A of the graph is its seed (zero when A is not dependent) plus the sum,
\* over every node F of the graph and every position k at which A is an
\* argument of F, of the contribution of F through that argument; for
\* y = x*x + x at x = 3 with seed 1 the adjoint of x is 7.
SeedOf(g, xbar_list, A) ==
    LET lst == graphs[g].dependentFunctionList
    IN  IF A \in Range(lst)
        THEN xbar_list[CHOOSE i \in 1 .. Len(lst) : lst[i] = A]
        ELSE 0

Contribution(h, F, k) ==
    CASE h[F].func = "__add__" -> h[F].xbar.v
      [] h[F].func = "__mul__" -> h[F].xbar.v * h[h[F].args[3 - k]].x.v
      [] h[F].func = "qr" -> h[F].xbar.v[1].v + h[F].xbar.v[2].v
      [] OTHER -> 0

Consumers(h, g, A) ==
    {p \in Nodes(g) \X {1, 2} :
        /\ p[2] <= Len(h[p[1]].args)
        /\ h[p[1]].args[p[2]] = A
        /\ h[p[1]].func \in {"__add__", "__mul__", "qr"}}

Selectors(h, g, A, j) ==
    {F \in Nodes(g) :
        h[F].func = "__getitem__" /\ h[F].args = <<A>> /\ h[F].funcargs = <<j - 1>>}

AdjointIsSum(h, g, xbar_list, A) ==
    IF h[A].x.t = "tuple"
    THEN /\ h[A].xbar.t = "tuple"
         /\ \A j \in 1 .. Len(h[A].x.v) :
                h[A].xbar.v[j] =
                    UTPM(SumFn([F \in Selectors(h, g, A, j) |-> h[F].xbar.v]))
    ELSE h[A].xbar =
            UTPM(SeedOf(g, xbar_list, A)
                 + SumFn([p \in Consumers(h, g, A) |-> Contribution(h, p[1], p[2])]))

IsXTimesXPlusX ==
    /\ Len(heap) = 3
    /\ heap[1].func = "Id" /\ heap[1].x = UTPM(3)
    /\ heap[2].func = "__mul__" /\ heap[2].args = <<1, 1>>
    /\ heap[3].func = "__add__" /\ heap[3].args = <<2, 1>>
    /\ graphs[1].dependentFunctionList = <<3>>
    /\ Returned("pullback", "ok")
    /\ last.arg = <<1>>

C3_AdjointFanInSum ==
    /\ Returned("pullback", "ok") =>
            \A A \in Nodes(last.g) : AdjointIsSum(heap, last.g, last.arg, A)
    /\ IsXTimesXPlusX => heap[1].xbar = UTPM(7)

C3_Witness == IsXTimesXPlusX /\ heap[1].xbar = UTPM(7) /\ heap[2].xbar = UTPM(1)

\* C4: the graph traced for y = x1 * (x2 + x3) from three leaves with the
\* values 2, 3, 4 has the value 14 at its last node, and after a pullback
\* of the seed 1 on that node the leaves have the adjoints 7, 2, 2.
IsX1TimesX2PlusX3 ==
    /\ Len(heap) = 5
    /\ \A k \in 1 .. 3 : heap[k].func = "Id" /\ heap[k].args = <<k>>
    /\ heap[1].x = UTPM(2) /\ heap[2].x = UTPM(3) /\ heap[3].x = UTPM(4)
    /\ heap[4].func = "__add__" /\ heap[4].args = <<2, 3>>
    /\ heap[5].func = "__mul__" /\ heap[5].args = <<1, 4>>

C4_EndToEnd ==
    IsX1TimesX2PlusX3 =>
        /\ heap[5].x = UTPM(14)
        /\ (Returned("pullback", "ok") /\ graphs[1].dependentFunctionList = <<5>>
                /\ last.arg = <<1>>)
            => <<heap[1].xbar, heap[2].xbar, heap[3].xbar>> = <<UTPM(7), UTPM(2), UTPM(2)>>

C4_Witness ==
    /\ IsX1TimesX2PlusX3
    /\ Returned("pullback", "ok")
    /\ heap[5].x = UTPM(14)
    /\ heap[5].xbar = UTPM(1)
    /\ heap[1].xbar = UTPM(7)

\* C5, as claimed: step 1 of CGraph.push_forward(values) makes the value of
\* every independent node independent_nodes[i] itself values[i], and
\* creates no node.
C5_AssignsIndependentValues ==
    [][(pc = "pf_assign" /\ pc' = "pf_walk") =>
            /\ \A i \in 1 .. Len(graphs[call.g].independentFunctionList) :
                    heap'[graphs[call.g].independentFunctionList[i]].x = call.arg[i]
            /\ Len(heap') = Len(heap)
            /\ graphs' = graphs]_vars

\* C6: from the start to the end of a CGraph.push_forward or CGraph.pullback
\* call, every step leaves the graphs (node list, counter, independent and
\* dependent lists) and every node's func, args, funcargs and ID unchanged.
Structure(h) ==
    [k \in 1 .. Len(h) |->
        [func |-> h[k].func, args |-> h[k].args, funcargs |-> h[k].funcargs,
         ID |-> h[k].ID]]

C6_ReplayKeepsStructure ==
    [][(pc # "idle" \/ pc' # "idle") =>
            /\ graphs' = graphs
            /\ cgraph' = cgraph
            /\ Structure(heap') = Structure(heap)]_vars

C6_Witness ==
    /\ Returned("pullback", "ok")
    /\ \E f \in Nodes(last.g) :
            heap[f].func = "__mul__" /\ heap[f].x = UTPM(4) /\ heap[f].xbar = UTPM(1)

\* C7: CGraph.pullback called while the dependent list is empty leaves by an
\* error in its first step, with no adjoint changed and no evaluator run.
C7_NoDependentsRaisesFirst ==
    [][(pc = "pb_check" /\ Len(graphs[call.g].dependentFunctionList) = 0) =>
            /\ pc' = "idle"
            /\ last'.op = "pullback"
            /\ last'.res = "error"
            /\ heap' = heap]_vars

C7_Witness ==
    /\ Returned("pullback", "error")
    /\ Len(graphs[last.g].dependentFunctionList) = 0
    /\ Len(graphs[last.g].functionList) = 2
    /\ \A f \in Nodes(last.g) : ~is_set(heap[f].xbar)

\* C8, as claimed: a CGraph.push_forward call whose x_list has not one entry
\* per independent node, and a CGraph.pullback call whose xbar_list has not
\* one entry per dependent node, ends with an error and leaves every node's
\* value and adjoint as they were when the call started.
Mismatch ==
    \/ /\ call.op = "push_forward"
       /\ Len(call.arg) # Len(graphs[call.g].independentFunctionList)
    \/ /\ call.op = "pullback"
       /\ Len(call.arg) # Len(graphs[call.g].dependentFunctionList)

ValuesAndAdjoints(h) == [k \in 1 .. Len(h) |-> <<h[k].x, h[k].xbar>>]

C8_CountMismatchIsError ==
    [][(pc # "idle" /\ pc' = "idle" /\ Mismatch) =>
            /\ last'.res = "error"
            /\ ValuesAndAdjoints(heap') = ValuesAndAdjoints(call.pre)]_vars

\* C9: in CGraph.pullback, between the initialisation and the seeding, the
\* adjoint of every node of the graph is the zero shaped like its value
\* (0. for a scalar, a zero structure, a tuple of zero structures for a
\* tuple); and when a pullback whose seeds are all zero has returned
\* normally, the adjoint of every independent node is zero.
ZeroLike(x) ==
    CASE x.t = "float" -> Float(0)
      [] x.t = "UTPM" -> UTPM(0)
      [] x.t = "tuple" -> Tuple([k \in 1 .. Len(x.v) |-> UTPM(0)])

IsZero(a) ==
    CASE a.t \in {"float", "UTPM"} -> a.v = 0
      [] a.t = "tuple" -> \A k \in 1 .. Len(a.v) : a.v[k].v = 0
      [] OTHER -> FALSE

C9_ZeroAdjoints ==
    /\ pc = "pb_seed" => \A f \in Nodes(call.g) : heap[f].xbar = ZeroLike(heap[f].x)
    /\ (Returned("pullback", "ok") /\ \A i \in 1 .. Len(last.arg) : last.arg[i] = 0)
        => \A f \in Range(graphs[last.g].independentFunctionList) : IsZero(heap[f].xbar)

C9_Witness ==
    /\ Returned("pullback", "ok")
    /\ last.arg = <<0>>
    /\ Len(heap) = 3
    /\ heap[2].func = "qr" /\ heap[2].xbar = Tuple(<<UTPM(0), UTPM(0)>>)
    /\ heap[3].func = "__getitem__"
    /\ graphs[1].independentFunctionList = <<1>>
    /\ graphs[1].dependentFunctionList = <<3>>
    /\ heap[1].xbar = UTPM(0)

\* C10: when a CGraph.push_forward call that repeats the previous call (same
\* graph, same x_list, nothing done in between, the previous one having
\* returned normally) returns normally, every node has the value it had
\* when the repeated call started, that is after the first call.
C10_PushForwardIdempotent ==
    [][(pc = "pf_walk" /\ pc' = "idle" /\ last'.res = "ok" /\ call.again) =>
            \A k \in 1 .. Len(heap) : heap'[k].x = call.pre[k].x]_vars

C10_Witness ==
    /\ Returned("push_forward", "ok")
    /\ last.again
    /\ \E f \in Nodes(last.g) : heap[f].func = "__mul__" /\ heap[f].x = UTPM(4)

\* C11: an evaluator that fails during a replay pass ends the pass there
\* with an error.  In CGraph.push_forward the nodes before the failing node
\* hold the values computed from their arguments, the failing node and the
\* nodes after it keep the values they had when the walk started.  In
\* CGraph.pullback every adjoint is the seed plus the contributions of the
\* nodes processed before the failing node, and the call is over.
ArgValues(h, f) == [k \in 1 .. Len(h[f].args) |-> h[h[f].args[k]].x]

ClassOf(h, F) == IF h[F].x.t = "tuple" THEN h[F].x.v[1].t ELSE h[F].x.t

Processed(g, i) ==
    {graphs[g].functionList[p] : p \in i + 1 .. Len(graphs[g].functionList)}

PartialAdjoint(h, g, xbar_list, A, P) ==
    CASE h[A].xbar.t = "tuple" ->
            \A j \in 1 .. Len(h[A].xbar.v) :
                h[A].xbar.v[j] =
                    UTPM(SumFn([F \in Selectors(h, g, A, j) \cap P |-> h[F].xbar.v]))
      [] h[A].xbar.t = "UTPM" ->
            h[A].xbar =
                UTPM(SeedOf(g, xbar_list, A)
                     + SumFn([p \in {q \in Consumers(h, g, A) : q[1] \in P} |->
                                Contribution(h, p[1], p[2])]))
      [] OTHER -> h[A].xbar = Float(0)

ForwardFailureAt(h0, h1, lst, i) ==
    /\ \A k \in 1 .. i - 1 : Consistent(h1, lst[k])
    /\ Raised(Forward(h1[lst[i]].func, ArgValues(h1, lst[i]), h1[lst[i]].funcargs))
    /\ \A k \in i .. Len(lst) : h1[lst[k]].x = h0[lst[k]].x
    /\ \A k \in 1 .. Len(h0) : h1[k].xbar = h0[k].xbar

C11_FailureAbortsPass ==
    [][/\ (pc = "pf_walk" /\ \E f \in Nodes(call.g) : ~Consistent(heap', f))
            => /\ pc' = "idle"
               /\ last'.res = "error"
               /\ \E i \in 1 .. Len(graphs[call.g].functionList) :
                    ForwardFailureAt(heap, heap', graphs[call.g].functionList, i)
       /\ (/\ pc = "pb_walk"
           /\ call.i >= 1
           /\ LET F == graphs[call.g].functionList[call.i]
              IN  \/ ~HasEvaluator(ClassOf(heap, F), heap[F].func)
                  \/ ~Evaluate(heap, F).ok)
            => /\ pc' = "idle"
               /\ last'.op = "pullback"
               /\ last'.res = "error"
               /\ heap' = heap
               /\ \A A \in Nodes(call.g) :
                    PartialAdjoint(heap', call.g, call.arg, A, Processed(call.g, call.i))]_vars

C11_Witness ==
    /\ Returned("pullback", "error")
    /\ Len(heap) = 3
    /\ heap[1].x = Float(2) /\ heap[1].xbar = Float(0)
    /\ heap[2].x = UTPM(2) /\ heap[2].xbar = UTPM(4)
    /\ heap[3].func = "__mul__" /\ heap[3].args = <<2, 2>> /\ heap[3].xbar = UTPM(1)

\* C12: in every graph the node counter equals the length of the node list
\* and the node at position k of the list has the k-th ID the graph issued
\* (the IDs issued are 0, 1, 2, ...), so the IDs of a graph are unique and
\* increase strictly in creation order.
IDs(g) == [k \in 1 .. Len(graphs[g].functionList) |-> heap[graphs[g].functionList[k]].ID]

C12_SequentialIds ==
    \A g \in 1 .. Len(graphs) :
        /\ graphs[g].functionCount = Len(graphs[g].functionList)
        /\ \A k \in 1 .. Len(IDs(g)) : IDs(g)[k] = k - 1
        /\ \A j, k \in 1 .. Len(IDs(g)) : j < k => IDs(g)[j] < IDs(g)[k]

C12_Witness ==
    /\ Len(graphs) = 2
    /\ IDs(1) = <<0>>
    /\ IDs(2) = <<0, 1>>
    /\ graphs[2].functionCount = 2

\* C13, as claimed: the graph recorded for y = x1 * (x2 + x3), the three
\* leaves created first, has five nodes with the IDs 1, 2, 3, 4, 5, whose
\* argument IDs are [1], [2], [3], [2, 3], [1, 4]; the independent nodes
\* have the IDs [1, 2, 3] and the dependent node has the ID 5.
IDsOf(l) == [k \in 1 .. Len(l) |-> heap[l[k]].ID]

C13_DocstringGraph ==
    (/\ IsX1TimesX2PlusX3
     /\ graphs[1].independentFunctionList = <<1, 2, 3>>
     /\ graphs[1].dependentFunctionList = <<5>>)
        => /\ IDs(1) = <<1, 2, 3, 4, 5>>
           /\ [k \in 1 .. 5 |-> IDsOf(heap[graphs[1].functionList[k]].args)]
                = <<(<<1>>), (<<2>>), (<<3>>), (<<2, 3>>), (<<1, 4>>)>>
           /\ IDsOf(graphs[1].independentFunctionList) = <<1, 2, 3>>
           /\ IDsOf(graphs[1].dependentFunctionList) = <<5>>

\* C14: a node is created with its adjoint not set; an adjoint that is not
\* set becomes set only in the initialisation step of CGraph.pullback, which
\* sets the adjoint of every node then in the graph; an adjoint that is set
\* stays set.  So nodes created after a pullback are not set while the nodes
\* that pullback ran over are.
C14_AdjointSetByInitialisation ==
    [][/\ \A k \in 1 .. Len(heap') :
            IF k > Len(heap) THEN ~is_set(heap'[k].xbar)
            ELSE /\ is_set(heap[k].xbar) => is_set(heap'[k].xbar)
                 /\ (~is_set(heap[k].xbar) /\ is_set(heap'[k].xbar))
                        => (pc = "pb_check" /\ pc' = "pb_seed")
       /\ (pc = "pb_check" /\ pc' # "idle")
            => \A f \in Nodes(call.g) : is_set(heap'[f].xbar)]_vars

C14_Witness ==
    /\ pc = "idle"
    /\ Len(heap) = 3
    /\ is_set(heap[1].xbar)
    /\ heap[2].xbar = UTPM(1)
    /\ heap[3].func = "__add__" /\ heap[3].args = <<2, 1>>
    /\ ~is_set(heap[3].xbar)

\* C15: a node whose value is a tuple has, after a pullback that returned
\* normally, a tuple adjoint of the same length whose slot i is the sum of
\* the adjoints of the indexing nodes node[i]; its evaluator has acted once
\* on the whole tuple, so that its argument's adjoint is the seed plus, for
\* each consumer, one contribution, which for the node with two outputs
\* combines both slots.  For (Q, R) = qr(A) at A = 3 and y = Q * Q + R with
\* seed 1 the adjoints are (6, 1) for the qr node and 7 for A.
TupleNodes(g) == {F \in Nodes(g) : heap[F].x.t = "tuple"}

IsQTimesQPlusR ==
    /\ Len(heap) = 6
    /\ heap[1].func = "Id" /\ heap[1].x = UTPM(3)
    /\ heap[2].func = "qr" /\ heap[2].args = <<1>>
    /\ heap[3].func = "__getitem__" /\ heap[3].args = <<2>> /\ heap[3].funcargs = <<0>>
    /\ heap[4].func = "__getitem__" /\ heap[4].args = <<2>> /\ heap[4].funcargs = <<1>>
    /\ heap[5].func = "__mul__" /\ heap[5].args = <<3, 3>>
    /\ heap[6].func = "__add__" /\ heap[6].args = <<5, 4>>
    /\ graphs[1].dependentFunctionList = <<6>>
    /\ Returned("pullback", "ok")

C15_MultiOutputScatter ==
    /\ Returned("pullback", "ok") =>
            \A F \in TupleNodes(last.g) :
                /\ heap[F].xbar.t = "tuple"
                /\ Len(heap[F].xbar.v) = Len(heap[F].x.v)
                /\ \A i \in 1 .. Len(heap[F].x.v) :
                        heap[F].xbar.v[i].v =
                            SumFn([S \in Selectors(heap, last.g, F, i) |-> heap[S].xbar.v])
                /\ LET A == heap[F].args[1]
                   IN  heap[A].xbar.v =
                            SeedOf(last.g, last.arg, A)
                            + SumFn([p \in Consumers(heap, last.g, A) |->
                                        IF heap[p[1]].x.t = "tuple"
                                        THEN SumFn([i \in 1 .. Len(heap[p[1]].x.v) |->
                                                        heap[p[1]].xbar.v[i].v])
                                        ELSE Contribution(heap, p[1], p[2])])
    /\ IsQTimesQPlusR =>
            /\ heap[2].xbar = Tuple(<<UTPM(6), UTPM(1)>>)
            /\ heap[1].xbar = UTPM(7)

C15_Witness ==
    /\ IsQTimesQPlusR
    /\ heap[6].x = UTPM(12)
    /\ heap[3].xbar = UTPM(6) /\ heap[4].xbar = UTPM(1)
    /\ heap[2].xbar = Tuple(<<UTPM(6), UTPM(1)>>)
    /\ heap[1].xbar = UTPM(7)

\* C16: after every step, every node is at exactly one position of the node
\* list of exactly one CGraph, and the node list of every CGraph is its
\* former node list, possibly extended at the end: nodes are never removed
\* or moved.
Places(gs, f) ==
    {p \in (1 .. Len(gs)) \X (1 .. Len(heap')) :
        p[2] <= Len(gs[p[1]].functionList) /\ gs[p[1]].functionList[p[2]] = f}

C16_ExclusiveOwnership ==
    [][/\ \A f \in 1 .. Len(heap') : Cardinality(Places(graphs', f)) = 1
       /\ Len(graphs') >= Len(graphs)
       /\ \A g \in 1 .. Len(graphs) :
            /\ Len(graphs'[g].functionList) >= Len(graphs[g].functionList)
            /\ \A k \in 1 .. Len(graphs[g].functionList) :
                    graphs'[g].functionList[k] = graphs[g].functionList[k]]_vars

C16_Witness ==
    /\ Len(graphs) = 2
    /\ graphs[1].functionList = <<1>>
    /\ graphs[2].functionList = <<2, 3>>
    /\ heap[3].func = "__add__" /\ heap[3].args = <<1, 2>>

\* C17: a call with a keyword other than out and n raises, and a call with
\* n < 0 raises, in both cases with neither the ordinary function nor the
\* derivative formula invoked; with n = 0 or n not given the call returns
\* the value of the ordinary function and invokes only it; with n > 0 the
\* call invokes the derivative formula of the function, first and with that
\* n, and never the function's own ordinary function.
Called == oracle.fn # "none"

OrderOf(kwargs) == IF kwargs.n.given THEN kwargs.n.v ELSE 0

OutOf(kwargs) == IF kwargs.out = "absent" THEN "None" ELSE kwargs.out

InDomain(d, x) ==
    CASE d = DOM_ALL -> TRUE
      [] d = DOM_POS -> x > 0
      [] d = DOM_GT_1 -> x > 1
      [] d = DOM_GT_NEG_1 -> x > 0 - 1
      [] d = DOM_ABS_LT_1 -> x > 0 - 1 /\ x < 1

C18_OutsideDomainRaises ==
    (Called /\ ~InDomain(domain(oracle.fn), oracle.x)) => oracle.res.t = "raise"

C20_SeedOfEveryPosition ==
    [][(pc = "pb_seed" /\ pc' = "pb_walk") =>
            LET dep == graphs[call.g].dependentFunctionList
            IN  /\ \A i \in 1 .. Len(dep) : heap'[dep[i]].xbar = UTPM(call.arg[i])
                /\ \A f \in Nodes(call.g) \ Range(dep) :
                        heap'[f].xbar = ZeroLike(heap'[f].x)]_vars

\* C20, amended: when the seeding step of CGraph.pullback is done, the
\* adjoint of every dependent node is the seed of the last position at
\* which the node is in the dependent list (the seed of its position when
\* the dependent nodes are distinct), whatever the adjoint was when the
\* call started, and the adjoint of every node that is not in the dependent
\* list is zero.
LastPlace(lst, f) == CHOOSE i \in 1 .. Len(lst) :
                        lst[i] = f /\ \A j \in i + 1 .. Len(lst) : lst[j] # f

C20_SeedingOverwrites ==
    [][(pc = "pb_seed" /\ pc' = "pb_walk") =>
            LET dep == graphs[call.g].dependentFunctionList
            IN  /\ \A i \in 1 .. Len(dep) :
                        heap'[dep[i]].xbar = UTPM(call.arg[LastPlace(dep, dep[i])])
                /\ \A f \in Nodes(call.g) \ Range(dep) :
                        heap'[f].xbar = ZeroLike(heap'[f].x)]_vars

C20_Witness ==
    /\ pc = "pb_walk"
    /\ call.i = 2
    /\ graphs[1].functionList = <<1, 2>>
    /\ graphs[1].dependentFunctionList = <<2, 2>>
    /\ call.arg = <<0, 1>>
    /\ call.pre[2].xbar = UTPM(1) /\ call.pre[1].xbar = UTPM(6)
    /\ heap[2].xbar = UTPM(1) /\ heap[1].xbar = UTPM(0)

\* C21, as claimed: after any interleaving of CGraph() creations, leaf
\* creations and traced operations, every argument of a node of a graph's
\* node list is in the node list of that same graph.
C21_GraphClosure ==
    \A g \in 1 .. Len(graphs) : \A f \in Nodes(g) :
        Range(heap[f].args) \subseteq Nodes(g)

\* C22: when a CGraph.pullback call that repeats the previous call (same
\* graph, same seeds, nothing done in between, the previous one having
\* returned normally) returns normally, every node of the graph has the
\* adjoint it had when the repeated call started, that is after the first
\* call.
C22_PullbackRepeatable ==
    [][(pc = "pb_walk" /\ pc' = "idle" /\ last'.res = "ok" /\ call.again) =>
            \A f \in Nodes(call.g) : heap'[f].xbar = call.pre[f].xbar]_vars

C22_Witness ==
    /\ Returned("pullback", "ok")
    /\ last.again
    /\ last.arg = <<1>>
    /\ last.g = 2
    /\ graphs[2].functionList = <<2, 3>>
    /\ heap[2].x = UTPM(3)
    /\ heap[3].func = "__mul__" /\ heap[3].args = <<2, 2>>
    /\ heap[3].xbar = UTPM(1)
    /\ heap[2].xbar = UTPM(6)

\* C23: no step of a CGraph.pullback call changes the value of a node, and
\* no step of a CGraph.push_forward call changes the adjoint of a node.
C23_ValueAdjointFrame ==
    [][/\ (call.op = "pullback" /\ pc # "idle")
            => \A k \in 1 .. Len(heap) : heap'[k].x = heap[k].x
       /\ (call.op = "push_forward" /\ pc # "idle")
            => \A k \in 1 .. Len(heap) : heap'[k].xbar = heap[k].xbar]_vars

C23_Witness ==
    /\ Returned("push_forward", "ok")
    /\ Len(heap) = 2
    /\ heap[1].x = UTPM(2)
    /\ heap[2].func = "__mul__" /\ heap[2].args = <<1, 1>> /\ heap[2].x = UTPM(4)
    /\ heap[2].xbar = UTPM(1)
    /\ heap[1].xbar = UTPM(6)

\* C24, as claimed: a call of order n >= 1 of a function that is defined
\* through another function invokes the formula of that other function with
\* the same n: log2 and log10 that of log, arccos that of arcsin, the value
\* being the negative of the arcsin value of order n, and hyp0f1, hyp1f1,
\* hyp1f2, hyp2f0, hyp2f1, hyp3f0 that of hyp_pfq with the same n and the
\* same out, whose value they return.
DefinedThrough(f) ==
    CASE f \in {"log2", "log10"} -> "log"
      [] f = "arccos" -> "arcsin"
      [] f \in HypFunctions -> "hyp_pfq"
      [] OTHER -> "none"

C24_OrderPreservedUnderDelegation ==
    (/\ Called
     /\ DefinedThrough(oracle.fn) # "none"
     /\ ~oracle.kwargs.other
     /\ OrderOf(oracle.kwargs) >= 1)
        => LET n == OrderOf(oracle.kwargs)
               out == OutOf(oracle.kwargs)
               g == DefinedThrough(oracle.fn)
           IN  /\ \E k \in 1 .. Len(oracle.trace) :
                    /\ oracle.trace[k].who = "formula"
                    /\ oracle.trace[k].f = g
                    /\ oracle.trace[k].n = n
                    /\ oracle.fn \in HypFunctions => oracle.trace[k].out = out
               /\ oracle.fn = "arccos"
                    => /\ oracle.res.t = "negative"
                       /\ oracle.res.a.t = "deriv"
                       /\ oracle.res.a.f = "arcsin"
                       /\ oracle.res.a.n = n
               /\ oracle.fn \in HypFunctions
                    => oracle.res = Deriv("hyp_pfq", oracle.x, n, out)

====
